---- MODULE Spec2Model ----
(***************************************************************************)
(* Model of app/core/bot.py (TelegramBot): the per-user scheduler          *)
(* (handle_message, handle_document, _process_messages) and the delivery   *)
(* splitter (_send_long_message).                                          *)
(*                                                                         *)
(* The bot runs on one asyncio event loop: code between two awaits is one  *)
(* atomic step, so every action below is one await-to-await segment of a   *)
(* handler or task.  Strings are sequences of one-character strings.       *)
(***************************************************************************)
EXTENDS Integers, Sequences, FiniteSets, TLC

\* ------------------------------------------------------------------ bounds

\* Stand-in for the default of the max_length parameter (4000 in the source):
\* texts of thousands of characters cannot be enumerated, so lengths are
\* scaled down, keeping  max_length + len(marker) <= HardLimit < 2*max_length.
DefaultMaxLength == 12
\* Stand-in for the transport's hard size limit (4096 for Telegram).
HardLimit == 23
\* A smaller max_length, for which every short text is enumerated.
SmallMaxLength == 3
\* Longest text of the exhaustively enumerated short texts.
MaxTextLen == 5
\* Most records the message_queue collection holds.
MaxMessages == 2
\* Most handle_document calls in progress at one time.
MaxUploads == 1
\* Most paragraphs of a long (structured) text.
MaxParas == 3

Users == {"u1", "u2"}

\* ------------------------------------------------------------- characters

NL == "\n"
Sep == <<NL, NL>>
Alphabet == {"a", "b", " ", NL}

\* str.strip() with no argument removes leading and trailing whitespace.
IsSpace(c) == c \in {" ", NL}

RECURSIVE LStrip(_)
LStrip(s) ==
    IF s # <<>> /\ IsSpace(Head(s)) THEN LStrip(Tail(s)) ELSE s

RECURSIVE RStrip(_)
RStrip(s) ==
    IF s # <<>> /\ IsSpace(s[Len(s)]) THEN RStrip(SubSeq(s, 1, Len(s) - 1)) ELSE s

Strip(s) == RStrip(LStrip(s))

\* First index k with s[k..k+1] = "\n\n", or 0.
FindSep(s) ==
    LET hits == {k \in 1..(Len(s) - 1) : s[k] = NL /\ s[k + 1] = NL}
    IN  IF hits = {} THEN 0 ELSE CHOOSE k \in hits : \A h \in hits : k <= h

\* text.split("\n\n"): non-overlapping separators, left to right; a text with
\* no separator (the empty text too) is one paragraph.
RECURSIVE SplitParagraphs(_)
SplitParagraphs(s) ==
    LET k == FindSep(s)
    IN  IF k = 0 THEN <<s>>
        ELSE <<SubSeq(s, 1, k - 1)>> \o SplitParagraphs(SubSeq(s, k + 2, Len(s)))

\* Faulty variant: a full buffer is dropped instead of being flushed to parts.
RECURSIVE Accumulate_NoFlush(_, _, _, _)
Accumulate_NoFlush(paragraphs, parts, current_part, max_length) ==
    LET flushed == IF current_part # <<>>
                   THEN Append(parts, Strip(current_part)) ELSE parts
    IN  IF paragraphs = <<>> THEN flushed
        ELSE LET paragraph == Head(paragraphs)
             IN  IF Len(current_part) + Len(paragraph) + 2 > max_length
                 THEN Accumulate_NoFlush(Tail(paragraphs), parts, paragraph, max_length)
                 ELSE Accumulate_NoFlush(Tail(paragraphs), parts,
                                 (IF current_part # <<>> THEN current_part \o Sep
                                  ELSE current_part) \o paragraph,
                                 max_length)

\* Faulty variant: the length test leaves no room for the separator it adds.
RECURSIVE Accumulate_NoSeparatorRoom(_, _, _, _)
Accumulate_NoSeparatorRoom(paragraphs, parts, current_part, max_length) ==
    LET flushed == IF current_part # <<>>
                   THEN Append(parts, Strip(current_part)) ELSE parts
    IN  IF paragraphs = <<>> THEN flushed
        ELSE LET paragraph == Head(paragraphs)
             IN  IF Len(current_part) + Len(paragraph) > max_length
                 THEN Accumulate_NoSeparatorRoom(Tail(paragraphs), flushed, paragraph,
                                                 max_length)
                 ELSE Accumulate_NoSeparatorRoom(Tail(paragraphs), parts,
                                 (IF current_part # <<>> THEN current_part \o Sep
                                  ELSE current_part) \o paragraph,
                                 max_length)

\* The greedy accumulation loop and the final flush.
RECURSIVE Accumulate(_, _, _, _)
Accumulate(paragraphs, parts, current_part, max_length) ==
    LET flushed == IF current_part # <<>>
                   THEN Append(parts, Strip(current_part)) ELSE parts
    IN  IF paragraphs = <<>> THEN flushed
        ELSE LET paragraph == Head(paragraphs)
             IN  IF Len(current_part) + Len(paragraph) + 2 > max_length
                 THEN Accumulate(Tail(paragraphs), flushed, paragraph, max_length)
                 ELSE Accumulate(Tail(paragraphs), parts,
                                 (IF current_part # <<>> THEN current_part \o Sep
                                  ELSE current_part) \o paragraph,
                                 max_length)

SplitParts(text, max_length) ==
    Accumulate(SplitParagraphs(text), <<>>, <<>>, max_length)

\* str(n) for n >= 0, as characters.
DigitChar(d) == <<"0", "1", "2", "3", "4", "5", "6", "7", "8", "9">>[d + 1]

RECURSIVE Digits(_)
Digits(n) ==
    IF n < 10 THEN <<DigitChar(n)>> ELSE Digits(n \div 10) \o <<DigitChar(n % 10)>>

\* f"Part {i}/{total_parts}:\n\n"
Header(i, total_parts) ==
    <<"P", "a", "r", "t", " ">> \o Digits(i) \o <<"/">> \o Digits(total_parts)
        \o <<":", NL, NL>>

\* Faulty variant: the marker counts the parts from 0.
PartMessage_ZeroBased(parts, i) ==
    IF Len(parts) > 1 THEN Header(i - 1, Len(parts)) \o parts[i] ELSE parts[i]

\* The message of part i: marked only when there is more than one part.
PartMessage(parts, i) ==
    IF Len(parts) > 1 THEN Header(i, Len(parts)) \o parts[i] ELSE parts[i]

Min(a, b) == IF a < b THEN a ELSE b

\* [message[i:i + max_length] for i in range(0, len(message), max_length)]
Subparts(message, max_length) ==
    [k \in 1..((Len(message) + max_length - 1) \div max_length) |->
        SubSeq(message, (k - 1) * max_length + 1, Min(k * max_length, Len(message)))]

\* ------------------------------------------------------------- transport

\* What Bot.send_message may do with a text: accept it, reject it as too long
\* (BadRequest "Message is too long") or fail in any other way.
Outcomes(message) ==
    IF Len(message) > HardLimit THEN {"too_long", "error"} ELSE {"ok", "error"}

\* -------------------------------------------------- _send_long_message

\* One call of _send_long_message, suspended at an await:
\*   pc = "direct"   line 120, the send of a short text
\*   pc = "part"     line 157, the send of part i
\*   pc = "window"   line 168, the send of window j of part i
\*   pc = "done" / "raised"   returned / left by an exception
\* A send takes effect when its await completes.  The delays of lines 160 and
\* 169 change nothing and are folded into the await of the send that follows
\* them (or into the end of the call).
\* message is the local of that name (for a short text, the text itself);
\* attempts lists the send_message calls made so far, with their outcomes.
NoCall ==
    [pc |-> "none", chat_id |-> "", text |-> <<>>, max_length |-> 0, parts |-> <<>>,
     i |-> 0, message |-> <<>>, subparts |-> <<>>, j |-> 0, attempts |-> <<>>]

Ended(d) == d.pc \in {"done", "raised"}

Running(d) == d.pc \in {"direct", "part", "window"}

\* Faulty variant: the length test is strict, so a text of exactly max_length is split.
StartDelivery_Strict(chat_id, text, max_length) ==
    LET base == [NoCall EXCEPT !.chat_id = chat_id, !.text = text,
                               !.max_length = max_length]
        parts == SplitParts(text, max_length)
    IN  IF Len(text) < max_length THEN [base EXCEPT !.pc = "direct", !.message = text]
        ELSE IF parts = <<>> THEN [base EXCEPT !.pc = "done"]
        ELSE [base EXCEPT !.pc = "part", !.parts = parts, !.i = 1,
                          !.message = PartMessage(parts, 1)]

\* The call up to its first await.
StartDelivery(chat_id, text, max_length) ==
    LET base == [NoCall EXCEPT !.chat_id = chat_id, !.text = text,
                               !.max_length = max_length]
        parts == SplitParts(text, max_length)
    IN  IF Len(text) <= max_length THEN [base EXCEPT !.pc = "direct", !.message = text]
        ELSE IF parts = <<>> THEN [base EXCEPT !.pc = "done"]
        ELSE [base EXCEPT !.pc = "part", !.parts = parts, !.i = 1,
                          !.message = PartMessage(parts, 1)]

\* The text the call is sending at its current await.
Pending(d) == IF d.pc = "window" THEN d.subparts[d.j] ELSE d.message

Attempt(d, outcome) ==
    [text |-> Pending(d), outcome |-> outcome, at |-> d.pc, part |-> d.i,
     chat_id |-> d.chat_id]

\* The for loop moves to the next part, or the call returns.
NextPart(d) ==
    IF d.i < Len(d.parts)
    THEN [d EXCEPT !.pc = "part", !.i = d.i + 1,
                   !.message = PartMessage(d.parts, d.i + 1),
                   !.subparts = <<>>, !.j = 0]
    ELSE [d EXCEPT !.pc = "done", !.subparts = <<>>, !.j = 0]

\* The except branch of a part's send.
PartFailed(d, outcome) ==
    LET subparts == Subparts(d.message, d.max_length)
    IN  IF outcome = "too_long" /\ subparts # <<>>
        THEN [d EXCEPT !.pc = "window", !.subparts = subparts, !.j = 1]
        ELSE NextPart(d)

\* A failed window send is inside the except branch: nothing catches it.
WindowFailed(d) == [d EXCEPT !.pc = "raised"]

\* Faulty variant: the next part is started after the first window, with the
\* other windows of the rejected part still unsent.
DeliveryStep_WindowsDetached(d, outcome) ==
    LET logged == [d EXCEPT !.attempts = Append(d.attempts, Attempt(d, outcome))]
    IN  CASE d.pc = "direct" ->
                [logged EXCEPT !.pc = IF outcome = "ok" THEN "done" ELSE "raised"]
          [] d.pc = "part" ->
                IF outcome = "ok" THEN NextPart(logged)
                ELSE PartFailed(logged, outcome)
          [] d.pc = "window" ->
                IF outcome # "ok" THEN WindowFailed(logged) ELSE NextPart(logged)
          [] OTHER -> d

\* One await of the call completes with `outcome`; the call runs to its next
\* await (or to its end).
DeliveryStep(d, outcome) ==
    LET logged == [d EXCEPT !.attempts = Append(d.attempts, Attempt(d, outcome))]
    IN  CASE d.pc = "direct" ->
                [logged EXCEPT !.pc = IF outcome = "ok" THEN "done" ELSE "raised"]
          [] d.pc = "part" ->
                IF outcome = "ok" THEN NextPart(logged)
                ELSE PartFailed(logged, outcome)
          [] d.pc = "window" ->
                IF outcome # "ok" THEN WindowFailed(logged)
                ELSE IF d.j < Len(d.subparts) THEN [logged EXCEPT !.j = d.j + 1]
                ELSE NextPart(logged)
          [] OTHER -> d

\* The outcomes the current await can have.
StepOutcomes(d) == Outcomes(Pending(d))

\* ------------------------------------------------------------------ texts

RECURSIVE Rep(_, _)
Rep(c, n) == IF n = 0 THEN <<>> ELSE <<c>> \o Rep(c, n - 1)

RECURSIVE Join(_)
Join(ps) ==
    IF Len(ps) = 1 THEN ps[1] ELSE ps[1] \o Sep \o Join(Tail(ps))

\* Every text of at most MaxTextLen characters.
ShortTexts == UNION {[1..n -> Alphabet] : n \in 0..MaxTextLen}

\* Paragraphs of the long texts: up to max_length, just over what the transport
\* takes once marked, and three times max_length.
LongParas ==
    {<<"b">>, <<" ", "b", NL>>, Rep("a", DefaultMaxLength), Rep("b", DefaultMaxLength - 3),
     Rep("a", HardLimit - 10), Rep("a", 3 * DefaultMaxLength)}

LongTexts == {Join(ps) : ps \in UNION {[1..n -> LongParas] : n \in 1..MaxParas}}

Texts == ShortTexts \cup LongTexts

MaxLengths == {SmallMaxLength, DefaultMaxLength}

\* ------------------------------------------------------------------ state

VARIABLES
    processing_users,   \* TelegramBot.processing_users
    message_queue,      \* the message_queue collection: each user's records, oldest first
    tasks,              \* each user's _process_messages tasks, created and not yet ended
    uploads,            \* the handle_document calls in progress
    last_pass,          \* history: the pass that ended in the step just taken, if any
    call                \* a direct call of _send_long_message

sched == <<processing_users, message_queue, tasks, uploads, last_pass>>

vars == <<processing_users, message_queue, tasks, uploads, last_pass, call>>

NoPass ==
    [user_id |-> "", how |-> "none", claimed |-> FALSE, late |-> 0, pending |-> 0,
     spawned |-> 0, others |-> TRUE, text |-> <<>>, attempts |-> <<>>]

Init ==
    /\ processing_users = {}
    /\ message_queue = [user_id \in Users |-> <<>>]
    /\ tasks = [user_id \in Users |-> <<>>]
    /\ uploads = <<>>
    /\ last_pass = NoPass
    /\ call = NoCall

Remove(seq, k) == SubSeq(seq, 1, k - 1) \o SubSeq(seq, k + 1, Len(seq))

RECURSIVE Sum(_, _)
Sum(f, S) ==
    IF S = {} THEN 0 ELSE LET x == CHOOSE x \in S : TRUE IN f[x] + Sum(f, S \ {x})

\* ------------------------------------------------------------ Queue Store

\* Number of records in the collection.
QueueSize == Sum([user_id \in Users |-> Len(message_queue[user_id])], Users)

\* db.add_message(user_id, message_text): the text is never read by the bot's
\* scheduling code and is left out of the record.  late is history: the
\* message was enqueued after the claim of a pass of the user still running.
AddMessage(queue, user_id, late) ==
    [queue EXCEPT ![user_id] =
        Append(@, [user_id |-> user_id, is_processed |-> FALSE, late |-> late])]

\* count_documents({"user_id": user_id, "is_processed": False})
CountUnprocessed(queue, user_id) ==
    Cardinality({k \in DOMAIN queue[user_id] : ~queue[user_id][k].is_processed})

\* The Batch Processor's claim: every unprocessed message of the user is marked
\* processed, atomically.
ClaimAll(queue, user_id) ==
    [queue EXCEPT ![user_id] =
        [k \in DOMAIN @ |-> [@[k] EXCEPT !.is_processed = TRUE]]]

\* -------------------------------------------------------------- scheduler

\* asyncio.create_task(self._process_messages(user_id)): the task is created
\* and has not run yet.  late counts the messages of the user enqueued after
\* the task's claim (history).
NewTask(user_id) ==
    [user_id |-> user_id, pc |-> "scheduled", late |-> 0, d |-> NoCall]

\* History: a message for user_id arrived; the tasks of the user that have
\* already claimed count it.
NoteArrival(ts, user_id) ==
    [ts EXCEPT ![user_id] =
        [k \in DOMAIN @ |->
            IF @[k].pc # "scheduled" THEN [@[k] EXCEPT !.late = @ + 1] ELSE @[k]]]

\* History: a pass of user_id has claimed and not ended.
MidPass(ts, user_id) == \E k \in DOMAIN ts[user_id] : ts[user_id][k].pc # "scheduled"

\* Faulty variant: the membership test is dropped, every call spawns a pass.
NotProcessing_Always(user_id) == TRUE

\* if user_id not in self.processing_users
NotProcessing(user_id) == user_id \notin processing_users

\* Faulty variant: a message or upload never schedules a pass.
ScheduleIfIdle_Never(ts, user_id) ==
    /\ processing_users' = processing_users
    /\ tasks' = ts

\* Faulty variant: the user is marked in flight and no task is created.
ScheduleIfIdle_NoTask(ts, user_id) ==
    /\ processing_users' = processing_users \cup {user_id}
    /\ tasks' = ts

\* "Schedule message processing if not already processing for this user"
ScheduleIfIdle(ts, user_id) ==
    IF NotProcessing(user_id)
    THEN /\ processing_users' = processing_users \cup {user_id}
         /\ tasks' = [ts EXCEPT ![user_id] = Append(@, NewTask(user_id))]
    ELSE /\ processing_users' = processing_users
         /\ tasks' = ts

handle_message(user_id) ==
    /\ QueueSize < MaxMessages
    /\ message_queue' = AddMessage(message_queue, user_id, MidPass(tasks, user_id))
    /\ ScheduleIfIdle(NoteArrival(tasks, user_id), user_id)
    /\ last_pass' = NoPass
    /\ UNCHANGED <<uploads, call>>

\* handle_document starts and waits for the download and the ingestion.
DocumentReceived(user_id) ==
    /\ Len(uploads) < MaxUploads
    /\ uploads' = Append(uploads, [user_id |-> user_id, pc |-> "ingest"])
    /\ last_pass' = NoPass
    /\ UNCHANGED <<processing_users, message_queue, tasks, call>>

\* The download or process_document ends: an exception or "exists" ends the
\* handler after its reply; otherwise the handler awaits its success reply.
DocumentIngested(k) ==
    /\ uploads[k].pc = "ingest"
    /\ \E result \in {"download_raised", "process_raised", "exists", "processed"} :
            uploads' = IF result = "processed"
                       THEN [uploads EXCEPT ![k].pc = "reply"]
                       ELSE Remove(uploads, k)
    /\ last_pass' = NoPass
    /\ UNCHANGED <<processing_users, message_queue, tasks, call>>

\* The success reply_text returns, and the handler schedules a pass; or it
\* raises, and the except branch skips the scheduling.
DocumentReplied(k) ==
    /\ uploads[k].pc = "reply"
    /\ uploads' = Remove(uploads, k)
    /\ \E outcome \in {"ok", "error"} :
            IF outcome = "ok" THEN ScheduleIfIdle(tasks, uploads[k].user_id)
            ELSE UNCHANGED <<processing_users, tasks>>
    /\ last_pass' = NoPass
    /\ UNCHANGED <<message_queue, call>>

\* ------------------------------------------------------ _process_messages

\* The replies process_message_queue may return: nothing, a short text, and a
\* text of two parts whose second part the transport rejects once marked.
Replies ==
    {<<>>, <<"h", "i">>, <<"b">> \o Sep \o Rep("a", HardLimit - 10)}

\* The end of pass k of user_id: the task is gone; the flag is discarded if
\* `discard`; the user is re-inserted and a new task created if `respawn`.
\* last_pass records it: how the pass ended, whether it had claimed, the
\* messages that arrived after its claim, what the recheck counted, the tasks
\* the step created, whether other users' flags were left alone, and the
\* _send_long_message call d the pass made, if any.
EndPass(user_id, k, d, how, discard, respawn) ==
    LET rest == [tasks EXCEPT ![user_id] = Remove(@, k)]
        discarded == IF discard THEN processing_users \ {user_id}
                     ELSE processing_users
    IN  /\ processing_users' = IF respawn THEN discarded \cup {user_id} ELSE discarded
        /\ tasks' = IF respawn
                    THEN [rest EXCEPT ![user_id] = Append(@, NewTask(user_id))]
                    ELSE rest
        /\ last_pass' =
                [user_id |-> user_id, how |-> how,
                 claimed |-> tasks[user_id][k].pc # "scheduled",
                 late |-> tasks[user_id][k].late,
                 pending |-> CountUnprocessed(message_queue, user_id),
                 spawned |-> Len(tasks'[user_id]) - Len(rest[user_id]),
                 others |-> processing_users' \ {user_id} = processing_users \ {user_id},
                 text |-> d.text, attempts |-> d.attempts]

Raised(how) == how \in {"process_raised", "delivery_raised"}

\* Faulty variant: no try/finally, an exception leaves the flag set and checks nothing.
PassEnds_NoFinally(user_id, k, d, how) ==
    EndPass(user_id, k, d, how, ~Raised(how),
            ~Raised(how) /\ CountUnprocessed(message_queue, user_id) > 0)

\* Faulty variant: the flag is cleared and the backlog is never rechecked.
PassEnds_NoRecheck(user_id, k, d, how) ==
    EndPass(user_id, k, d, how, TRUE, FALSE)

\* Faulty variant: the backlog is rechecked and the flag is never discarded.
PassEnds_NoDiscard(user_id, k, d, how) ==
    EndPass(user_id, k, d, how, FALSE,
            CountUnprocessed(message_queue, user_id) > 0)

\* Faulty variant: a pass that ended by an exception is never followed up.
PassEnds_NoRetry(user_id, k, d, how) ==
    EndPass(user_id, k, d, how, TRUE,
            ~Raised(how) /\ CountUnprocessed(message_queue, user_id) > 0)

\* Faulty variant: the finally block clears the whole set, not the user's entry.
PassEnds_ClearsAll(user_id, k, d, how) ==
    LET respawn == CountUnprocessed(message_queue, user_id) > 0
        rest == [tasks EXCEPT ![user_id] = Remove(@, k)]
    IN  /\ processing_users' = IF respawn THEN {user_id} ELSE {}
        /\ tasks' = IF respawn
                    THEN [rest EXCEPT ![user_id] = Append(@, NewTask(user_id))]
                    ELSE rest
        /\ last_pass' =
                [user_id |-> user_id, how |-> how,
                 claimed |-> tasks[user_id][k].pc # "scheduled",
                 late |-> tasks[user_id][k].late,
                 pending |-> CountUnprocessed(message_queue, user_id),
                 spawned |-> Len(tasks'[user_id]) - Len(rest[user_id]),
                 others |-> processing_users' \ {user_id} = processing_users \ {user_id},
                 text |-> d.text, attempts |-> d.attempts]

\* The finally block: the flag is discarded, the user's unprocessed messages
\* are counted, and if any remain the user is re-inserted and a new pass is
\* created.  The block has no await: it is part of the step that ends the pass.
PassEnds(user_id, k, d, how) ==
    EndPass(user_id, k, d, how, TRUE,
            CountUnprocessed(message_queue, user_id) > 0)

\* process_message_queue claims the user's unprocessed messages.
Claim(user_id, k) ==
    /\ tasks[user_id][k].pc = "scheduled"
    /\ message_queue' = ClaimAll(message_queue, user_id)
    /\ tasks' = [tasks EXCEPT ![user_id][k].pc = "claimed"]
    /\ last_pass' = NoPass
    /\ UNCHANGED <<processing_users, uploads, call>>

\* process_message_queue raises before it has claimed anything.
ProcessRaisesEarly(user_id, k) ==
    /\ tasks[user_id][k].pc = "scheduled"
    /\ PassEnds(user_id, k, NoCall, "process_raised")
    /\ UNCHANGED <<message_queue, uploads, call>>

\* process_message_queue raises after its claim.
ProcessRaisesLate(user_id, k) ==
    /\ tasks[user_id][k].pc = "claimed"
    /\ PassEnds(user_id, k, NoCall, "process_raised")
    /\ UNCHANGED <<message_queue, uploads, call>>

\* process_message_queue returns: nothing is sent for an empty response,
\* otherwise _send_long_message runs to its first await.
ProcessReturns(user_id, k) ==
    /\ tasks[user_id][k].pc = "claimed"
    /\ \E response \in Replies :
            LET d == StartDelivery(user_id, response, DefaultMaxLength)
            IN  IF response = <<>> THEN PassEnds(user_id, k, NoCall, "empty")
                ELSE IF Ended(d) THEN PassEnds(user_id, k, d, "returned")
                ELSE /\ tasks' = [tasks EXCEPT ![user_id][k].pc = "deliver",
                                               ![user_id][k].d = d]
                     /\ processing_users' = processing_users
                     /\ last_pass' = NoPass
    /\ UNCHANGED <<message_queue, uploads, call>>

\* An await of the pass's _send_long_message call completes.
Deliver(user_id, k) ==
    /\ tasks[user_id][k].pc = "deliver"
    /\ \E outcome \in StepOutcomes(tasks[user_id][k].d) :
            LET d == DeliveryStep(tasks[user_id][k].d, outcome)
            IN  IF Ended(d)
                THEN PassEnds(user_id, k, d,
                              IF d.pc = "raised" THEN "delivery_raised" ELSE "returned")
                ELSE /\ tasks' = [tasks EXCEPT ![user_id][k].d = d]
                     /\ processing_users' = processing_users
                     /\ last_pass' = NoPass
    /\ UNCHANGED <<message_queue, uploads, call>>

\* A step of a pass of user_id whose process_message_queue claims.
PassStep(user_id) ==
    \E k \in DOMAIN tasks[user_id] :
        \/ Claim(user_id, k)
        \/ ProcessRaisesLate(user_id, k)
        \/ ProcessReturns(user_id, k)
        \/ Deliver(user_id, k)

Next ==
    \/ \E user_id \in Users : handle_message(user_id)
    \/ \E user_id \in Users : DocumentReceived(user_id)
    \/ \E k \in DOMAIN uploads : DocumentIngested(k)
    \/ \E k \in DOMAIN uploads : DocumentReplied(k)
    \/ \E user_id \in Users : \E k \in DOMAIN tasks[user_id] :
            ProcessRaisesEarly(user_id, k)
    \/ \E user_id \in Users : PassStep(user_id)

Spec == Init /\ [][Next]_vars

\* The same program when process_message_queue claims on every pass, with
\* every pass that exists taking its next step eventually.
LiveNext ==
    \/ \E user_id \in Users : handle_message(user_id)
    \/ \E user_id \in Users : DocumentReceived(user_id)
    \/ \E k \in DOMAIN uploads : DocumentIngested(k)
    \/ \E k \in DOMAIN uploads : DocumentReplied(k)
    \/ \E user_id \in Users : PassStep(user_id)

LiveSpec ==
    Init /\ [][LiveNext]_vars /\ \A user_id \in Users : WF_vars(PassStep(user_id))

\* Any step of a pass of user_id, an early failure of process_message_queue
\* included.
AnyPassStep(user_id) ==
    \/ PassStep(user_id)
    \/ \E k \in DOMAIN tasks[user_id] : ProcessRaisesEarly(user_id, k)

\* The whole program, with every pass that exists taking its next step
\* eventually: the event loop runs every task whose await has completed.
FairSpec ==
    Init /\ [][Next]_vars /\ \A user_id \in Users : WF_vars(AnyPassStep(user_id))

\* ------------------------------------------- a direct call of the splitter

SplitInit ==
    /\ processing_users = {}
    /\ message_queue = [user_id \in Users |-> <<>>]
    /\ tasks = [user_id \in Users |-> <<>>]
    /\ uploads = <<>>
    /\ last_pass = NoPass
    /\ call \in {StartDelivery("u1", text, max_length) :
                    text \in Texts, max_length \in MaxLengths}

CallStep ==
    /\ Running(call)
    /\ \E outcome \in StepOutcomes(call) : call' = DeliveryStep(call, outcome)
    /\ UNCHANGED sched

SplitNext == CallStep

SplitSpec == SplitInit /\ [][SplitNext]_vars

\* ------------------------------------------------ claims on the scheduler

Idle(user_id) == user_id \notin processing_users /\ tasks[user_id] = <<>>

AllProcessed(user_id) == CountUnprocessed(message_queue, user_id) = 0

\* C1 (single-flight): no user ever has more than one _process_messages task
\* created and not yet ended, whatever the interleaving of handle_message,
\* handle_document and pass steps.
C1_SingleFlight == \A user_id \in Users : Len(tasks[user_id]) <= 1

\* A message arrived during a pass, the pass ended, its recheck created the
\* next pass, and that pass is the user's only one.
C1_Witness ==
    /\ last_pass.late >= 1
    /\ last_pass.spawned = 1
    /\ Len(tasks[last_pass.user_id]) = 1
    /\ \E k \in DOMAIN uploads : uploads[k].user_id = last_pass.user_id

\* C2 (no starvation): when process_message_queue claims on every pass and
\* passes are scheduled fairly, every message enqueued is eventually processed.
C2_NoStarvation ==
    \A user_id \in Users : \A k \in 1..MaxMessages :
        (k \in DOMAIN message_queue[user_id]
            /\ ~message_queue[user_id][k].is_processed)
        ~> (k \in DOMAIN message_queue[user_id]
            /\ message_queue[user_id][k].is_processed)

\* As many messages as the queue holds, one of them enqueued during a pass and
\* one before, all processed.
C2_Witness ==
    \E user_id \in Users :
        /\ Len(message_queue[user_id]) = MaxMessages
        /\ AllProcessed(user_id)
        /\ message_queue[user_id][MaxMessages].late
        /\ ~message_queue[user_id][1].late

\* C3 (race window): a message enqueued after a pass's claim spawns nothing by
\* itself; the recheck of that pass counts it and creates the one next pass; a
\* pass that has claimed has left unprocessed only what arrived after its
\* claim; and a user who is idle has no unprocessed message.
C3_RaceWindow ==
    /\ \A user_id \in Users : \A k \in DOMAIN tasks[user_id] :
            /\ tasks[user_id][k].late > 0 => Len(tasks[user_id]) = 1
            /\ tasks[user_id][k].pc # "scheduled" =>
                    CountUnprocessed(message_queue, user_id) = tasks[user_id][k].late
    /\ last_pass.how # "none" /\ last_pass.late > 0 =>
            /\ last_pass.pending = last_pass.late
            /\ last_pass.spawned = 1
            /\ last_pass.user_id \in processing_users
            /\ tasks[last_pass.user_id] = <<NewTask(last_pass.user_id)>>
    /\ \A user_id \in Users : Idle(user_id) => AllProcessed(user_id)

\* A message enqueued during a pass has been processed and the user is idle.
C3_Witness ==
    \E user_id \in Users :
        /\ Idle(user_id)
        /\ AllProcessed(user_id)
        /\ \E k \in DOMAIN message_queue[user_id] : message_queue[user_id][k].late

\* C4 (completion on failure): a pass that ends, by an exception of
\* process_message_queue or of the delivery as much as by returning, leaves the
\* user in processing_users, with one new pass created, if and only if the
\* recheck counted unprocessed messages of the user.
C4_CompletionOnFailure ==
    last_pass.how # "none" =>
        LET user_id == last_pass.user_id
            n == CountUnprocessed(message_queue, user_id)
        IN  /\ last_pass.pending = n
            /\ user_id \in processing_users <=> n > 0
            /\ last_pass.spawned = (IF n > 0 THEN 1 ELSE 0)
            /\ Len(tasks[user_id]) = last_pass.spawned

\* A delivery raised while a message was waiting, and the next pass exists.
C4_Witness ==
    /\ last_pass.how = "delivery_raised"
    /\ last_pass.pending > 0
    /\ last_pass.spawned = 1
    /\ last_pass.user_id \in processing_users

\* C5 (burst to one pass): a pass that claimed, with no message of the user
\* enqueued after its claim, leaves the user idle with no further pass; and if
\* its reply is non-empty and no longer than max_length, the pass made exactly
\* one send, of the reply itself.
C5_BurstOnePass ==
    last_pass.how # "none" /\ last_pass.claimed /\ last_pass.late = 0 =>
        /\ Idle(last_pass.user_id)
        /\ last_pass.spawned = 0
        /\ (last_pass.how \in {"returned", "delivery_raised"}
                /\ last_pass.text # <<>>
                /\ Len(last_pass.text) <= DefaultMaxLength)
            => /\ Len(last_pass.attempts) = 1
               /\ last_pass.attempts[1].text = last_pass.text
               /\ last_pass.attempts[1].chat_id = last_pass.user_id

\* Two messages were claimed by one pass, which sent its short reply once and
\* left the user idle.
C5_Witness ==
    /\ last_pass.how = "returned"
    /\ last_pass.late = 0
    /\ last_pass.text = <<"h", "i">>
    /\ Len(last_pass.attempts) = 1
    /\ last_pass.attempts[1].outcome = "ok"
    /\ Len(message_queue[last_pass.user_id]) >= 2
    /\ \A k \in DOMAIN message_queue[last_pass.user_id] :
            ~message_queue[last_pass.user_id][k].late
    /\ Idle(last_pass.user_id)

\* ------------------------------------------------- claims on the splitter

IsPrefix(p, s) == Len(p) <= Len(s) /\ SubSeq(s, 1, Len(p)) = p

AttemptTexts(d) == [k \in DOMAIN d.attempts |-> d.attempts[k].text]

\* C6 (splitter short-circuit): a call whose text is no longer than max_length
\* sends nothing before its one send at line 120, and has ended only after
\* exactly one send, of the text unchanged and unmarked.
C6_ShortCircuit ==
    Len(call.text) <= call.max_length /\ call.pc # "none" =>
        /\ call.pc \in {"direct", "done", "raised"}
        /\ call.pc = "direct" => call.attempts = <<>>
        /\ Ended(call) => /\ AttemptTexts(call) = <<call.text>>
                          /\ call.attempts[1].at = "direct"

\* A text of exactly max_length characters went out whole, in one send.
C6_Witness ==
    /\ call.pc = "done"
    /\ Len(call.text) = call.max_length
    /\ AttemptTexts(call) = <<call.text>>

\* The paragraphs of the call's text, and its sends in order.
Paragraphs == SplitParagraphs(call.text)

Sent == call.attempts

\* A sent message without the marker "Part k/n:\n\n" of its position k of n.
Unmarked(k, n) ==
    LET m == Sent[k].text
    IN  IF n > 1 /\ IsPrefix(Header(k, n), m)
        THEN SubSeq(m, Len(Header(k, n)) + 1, Len(m)) ELSE m

\* The sent messages, unmarked and rejoined on the paragraph separator, are
\* the text.
Reconstructed ==
    /\ Sent # <<>>
    /\ Join([k \in DOMAIN Sent |-> Unmarked(k, Len(Sent))]) = call.text

\* A text longer than max_length, made of paragraphs (none empty) none of
\* which is longer than max_length.
ParagraphText ==
    /\ call.pc # "none"
    /\ Len(call.text) > call.max_length
    /\ \A k \in DOMAIN Paragraphs :
            Paragraphs[k] # <<>> /\ Len(Paragraphs[k]) <= call.max_length

\* C7 as claimed: the sends of a text of paragraphs no longer than max_length,
\* unmarked and rejoined, reconstruct the text.
C7_ParagraphsReconstructed == ParagraphText /\ Ended(call) => Reconstructed

\* No paragraph begins or ends with whitespace.
CleanParagraphs ==
    \A k \in DOMAIN Paragraphs : Strip(Paragraphs[k]) = Paragraphs[k]

\* C7 as amended (paragraph preservation): when moreover no paragraph begins
\* or ends with whitespace, the sends, unmarked and rejoined on the
\* separator, reconstruct the text: every send was a primary send, and no
\* paragraph was split, dropped or duplicated.
C7_CleanParagraphsReconstructed ==
    ParagraphText /\ CleanParagraphs /\ Ended(call) =>
        /\ call.pc = "done"
        /\ Reconstructed
        /\ \A k \in DOMAIN Sent : Sent[k].at = "part" /\ Sent[k].part = k

\* Three paragraphs went out as two messages, the first two paragraphs together.
C7_Witness ==
    /\ ParagraphText /\ CleanParagraphs /\ call.pc = "done"
    /\ Len(Paragraphs) = 3
    /\ Len(Sent) = 2
    /\ Unmarked(1, 2) = Paragraphs[1] \o Sep \o Paragraphs[2]
    /\ Reconstructed

Marked(a) == IsPrefix(Header(a.part, Len(call.parts)), a.text)

\* C8 as claimed: with more than one part, every message sent, the windows of
\* the fallback too, begins with the marker of its part.
C8_EverySendMarked ==
    Len(call.parts) > 1 => \A k \in DOMAIN Sent : Marked(Sent[k])

\* The latest primary send at or before send k.
PartSendBefore(k) ==
    CHOOSE f \in 1..k :
        /\ Sent[f].at = "part"
        /\ \A g \in (f + 1)..k : Sent[g].at # "part"

\* C8 as amended (marker correctness): with N > 1 parts, the primary send of
\* part i is "Part i/N:\n\n" followed by the part; the sends of the fallback
\* are the consecutive max_length slices of that marked message, which carry
\* the marker once between them, not one each.
C8_PartSendsMarked ==
    Len(call.parts) > 1 =>
        \A k \in DOMAIN Sent :
            /\ Sent[k].at = "part" =>
                    /\ Sent[k].text =
                            Header(Sent[k].part, Len(call.parts)) \o call.parts[Sent[k].part]
                    /\ Sent[k].part = Cardinality({g \in 1..k : Sent[g].at = "part"})
            /\ Sent[k].at = "window" =>
                    LET f == PartSendBefore(k)
                        m == Sent[f].text
                        j == k - f
                    IN  /\ Sent[f].outcome = "too_long"
                        /\ Sent[k].part = Sent[f].part
                        /\ Sent[k].text =
                              SubSeq(m, (j - 1) * call.max_length + 1,
                                     Min(j * call.max_length, Len(m)))

\* A part was rejected and its second window, sent without a marker, was accepted.
C8_Witness ==
    /\ Len(call.parts) > 1
    /\ Ended(call)
    /\ \E k \in DOMAIN Sent :
            /\ Sent[k].at = "window"
            /\ Sent[k].outcome = "ok"
            /\ k - PartSendBefore(k) = 2
            /\ ~Marked(Sent[k])

\* C9 as claimed (oversize fallback): once the call has ended, every message
\* the transport rejected as too long is followed by the sends of all its
\* max_length windows, in order; and a text of one paragraph of 3*max_length
\* characters that was rejected went out as exactly 3 windows.
C9_WindowsCoverRejected ==
    Ended(call) =>
        /\ \A k \in DOMAIN Sent :
                Sent[k].outcome = "too_long" =>
                    LET windows == Subparts(Sent[k].text, call.max_length)
                    IN  \A j \in DOMAIN windows :
                            /\ k + j \in DOMAIN Sent
                            /\ Sent[k + j].at = "window"
                            /\ Sent[k + j].text = windows[j]
        /\ (/\ Len(Paragraphs) = 1
            /\ Len(call.text) = 3 * call.max_length
            /\ \E k \in DOMAIN Sent : Sent[k].outcome = "too_long")
            => Cardinality({k \in DOMAIN Sent : Sent[k].at = "window"}) = 3

\* C10 as claimed (a failed part does not abort the rest): once the call has
\* ended, every part has had its primary send, whatever failed before it.
C10_LaterPartsAttempted ==
    Ended(call) =>
        \A i \in DOMAIN call.parts :
            \E k \in DOMAIN Sent : Sent[k].at = "part" /\ Sent[k].part = i

\* C11 (ordered delivery): within one call the sends are issued in part order,
\* one at a time: the primary send of a part comes before every other send of
\* that part and after every send of the parts before it, and the primary send
\* of part i+1 comes only when the primary send of part i has completed or
\* failed and, if part i was rejected as too long, when every window of part i
\* has been sent.
C11_OrderedDelivery ==
    call.pc # "none" =>
        /\ \A k, g \in DOMAIN Sent : k < g => Sent[k].part <= Sent[g].part
        /\ Running(call) => \A k \in DOMAIN Sent : Sent[k].part <= call.i
        /\ \A g \in DOMAIN Sent :
                Sent[g].at = "part" =>
                    /\ \A k \in 1..(g - 1) : Sent[k].part < Sent[g].part
                    /\ Sent[g].part > 1 =>
                        \E f \in 1..(g - 1) :
                            LET windows == IF Sent[f].outcome = "too_long"
                                           THEN Subparts(Sent[f].text, call.max_length)
                                           ELSE <<>>
                            IN  /\ Sent[f].at = "part"
                                /\ Sent[f].part = Sent[g].part - 1
                                /\ g = f + Len(windows) + 1
                                /\ \A j \in DOMAIN windows :
                                        /\ Sent[f + j].at = "window"
                                        /\ Sent[f + j].text = windows[j]
                                        /\ Sent[f + j].outcome = "ok"

\* Part 1 was rejected, its two windows went out, and only then part 2.
C11_Witness ==
    /\ call.pc = "done"
    /\ Len(call.parts) = 2
    /\ Len(Sent) = 4
    /\ Sent[1].at = "part" /\ Sent[1].outcome = "too_long"
    /\ Sent[2].at = "window" /\ Sent[3].at = "window"
    /\ Sent[4].at = "part" /\ Sent[4].part = 2

\* C12 (cross-user isolation): a step of one user's pass, a step that ends the
\* pass with an error included, leaves every other user's membership in
\* processing_users and every other user's tasks as they were; and every pass
\* that exists ends, whatever happens in the passes of the other users.
C12_CrossUserIsolation ==
    /\ [][\A user_id \in Users :
            AnyPassStep(user_id) =>
                \A other \in Users \ {user_id} :
                    /\ other \in processing_users' <=> other \in processing_users
                    /\ tasks'[other] = tasks[other]]_vars
    /\ \A user_id \in Users :
            (tasks[user_id] # <<>>)
                ~> (last_pass.how # "none" /\ last_pass.user_id = user_id)

\* A pass of one user ended with an error of its delivery while a pass of
\* another user was delivering, and that user is still in flight.
C12_Witness ==
    /\ Raised(last_pass.how)
    /\ last_pass.others
    /\ \E other \in Users \ {last_pass.user_id} :
            /\ other \in processing_users
            /\ Len(tasks[other]) = 1
            /\ tasks[other][1].pc = "deliver"
            /\ tasks[other][1].d.attempts # <<>>

\* C13 (part length bound): when the text is longer than max_length and none
\* of its paragraphs is, every part of the greedy accumulation, before its
\* marker is prefixed, has at most max_length characters.
C13_PartLengthBound ==
    (/\ call.pc # "none"
     /\ Len(call.text) > call.max_length
     /\ \A k \in DOMAIN Paragraphs : Len(Paragraphs[k]) <= call.max_length)
    => \A i \in DOMAIN call.parts : Len(call.parts[i]) <= call.max_length

\* Two paragraphs and their separator fill a part of exactly max_length.
C13_Witness ==
    /\ call.pc = "done"
    /\ \A k \in DOMAIN Paragraphs : Len(Paragraphs[k]) <= call.max_length
    /\ Len(call.parts) > 1
    /\ \E i \in DOMAIN call.parts :
            /\ Len(call.parts[i]) = call.max_length
            /\ FindSep(call.parts[i]) # 0
    /\ \A k \in DOMAIN Sent : Sent[k].outcome = "ok"

\* C14 as claimed (empty text is never sent): a pass whose reply is empty
\* starts no _send_long_message call and sends nothing, and a call of
\* _send_long_message with the empty text makes no send.
C14_EmptyNeverSent ==
    /\ \A user_id \in Users : \A k \in DOMAIN tasks[user_id] :
            tasks[user_id][k].d.text = <<>> => tasks[user_id][k].d = NoCall
    /\ last_pass.text = <<>> => last_pass.attempts = <<>>
    /\ call.text = <<>> => call.attempts = <<>>

\* C15 as claimed (a document upload schedules a pass): the step that ends a
\* handle_document call whose ingestion succeeded leaves the user in
\* processing_users with exactly one pass, created by that step if the user
\* was not in flight and not created if the user was.
C15_UploadSchedulesPass ==
    [][\A k \in DOMAIN uploads :
            uploads[k].pc = "reply" /\ uploads' = Remove(uploads, k) =>
                LET user_id == uploads[k].user_id
                IN  /\ user_id \in processing_users'
                    /\ Len(tasks'[user_id]) = 1
                    /\ Len(tasks'[user_id]) =
                            IF user_id \in processing_users THEN Len(tasks[user_id])
                            ELSE Len(tasks[user_id]) + 1]_vars

\* C16 (idle implies empty backlog): between atomic steps, a user who is not
\* in processing_users has no unprocessed message in the queue; and a user
\* leaves processing_users only in the step that ends a pass of theirs whose
\* recheck counted no unprocessed message.
C16_IdleImpliesEmptyBacklog ==
    /\ [](\A user_id \in Users :
            user_id \notin processing_users =>
                \A k \in DOMAIN message_queue[user_id] :
                    message_queue[user_id][k].is_processed)
    /\ [][\A user_id \in Users :
            user_id \in processing_users /\ user_id \notin processing_users' =>
                /\ last_pass'.how # "none"
                /\ last_pass'.user_id = user_id
                /\ last_pass'.pending = 0]_vars

\* A pass that claimed a message and then failed counted no backlog and left
\* the user out of processing_users.
C16_Witness ==
    /\ last_pass.how = "process_raised"
    /\ last_pass.claimed
    /\ last_pass.pending = 0
    /\ last_pass.user_id \notin processing_users
    /\ message_queue[last_pass.user_id] # <<>>

\* C17 as claimed (failed passes do not chain by themselves): messages stop
\* arriving (the queue is bounded), so every user is idle again and again,
\* whatever process_message_queue does.
C17_FailedPassesDoNotChain ==
    \A user_id \in Users : []<>Idle(user_id)

\* C17 as amended: a pass whose process_message_queue raised sends nothing and
\* is followed by the recheck: with no unprocessed message left the user is
\* idle and no pass is created; with unprocessed messages left, those the
\* failed pass did not claim included, the user is in flight again with one
\* new pass, although no further message has arrived.
C17_FailedPassRecheckRetries ==
    last_pass.how = "process_raised" =>
        LET user_id == last_pass.user_id
        IN  /\ last_pass.attempts = <<>>
            /\ last_pass.pending = 0 =>
                    /\ last_pass.spawned = 0
                    /\ Idle(user_id)
            /\ last_pass.pending > 0 =>
                    /\ last_pass.spawned = 1
                    /\ user_id \in processing_users
                    /\ tasks[user_id] = <<NewTask(user_id)>>

\* A pass failed before it claimed the user's one message, and the recheck
\* created the next pass with no other message in the queue.
C17_Witness ==
    /\ last_pass.how = "process_raised"
    /\ ~last_pass.claimed
    /\ last_pass.pending = 1
    /\ last_pass.spawned = 1
    /\ QueueSize = 1
    /\ uploads = <<>>
    /\ tasks[last_pass.user_id] = <<NewTask(last_pass.user_id)>>

\* C18 (flag matches task): between atomic steps a user is in
\* processing_users if and only if exactly one _process_messages pass of the
\* user is scheduled or running; a user outside the set has none.
C18_FlagMatchesTask ==
    \A user_id \in Users :
        Len(tasks[user_id]) = IF user_id \in processing_users THEN 1 ELSE 0

\* A user put in flight by handle_document alone, the pass not yet started,
\* while the pass of another user is delivering.
C18_Witness ==
    \E user_id \in Users :
        /\ user_id \in processing_users
        /\ message_queue[user_id] = <<>>
        /\ tasks[user_id] = <<NewTask(user_id)>>
        /\ \E other \in Users \ {user_id} :
                /\ other \in processing_users
                /\ tasks[other][1].pc = "deliver"

\* C19 (replies of successive passes do not interleave): while a pass of a
\* user has sends of its reply still to make, the user has no other pass,
\* scheduled or inside process_message_queue; so every send of a reply comes
\* before the process_message_queue call of the user's next pass, whatever
\* messages arrive during the delivery.
C19_RepliesDoNotInterleave ==
    \A user_id \in Users : \A k, g \in DOMAIN tasks[user_id] :
        Running(tasks[user_id][k].d) =>
            /\ g = k
            /\ tasks[user_id][k].pc = "deliver"
            /\ tasks[user_id][k].d.chat_id = user_id

\* A message arrived between two sends of a reply of two parts, and no other
\* pass of the user exists.
C19_Witness ==
    \E user_id \in Users :
        /\ Len(tasks[user_id]) = 1
        /\ tasks[user_id][1].late >= 1
        /\ tasks[user_id][1].d.pc = "part"
        /\ tasks[user_id][1].d.i = 2
        /\ CountUnprocessed(message_queue, user_id) >= 1

====
